---- MODULE Spec2Model ----
(***************************************************************************)
(* The live execution engine of the two bot scripts                        *)
(*   src/strategies/scripts/hedge_bot.py   (two-leg spread, bot = "hedge") *)
(*   src/trading/confluence_bot.py         (one option leg, bot = "single")*)
(* Each script runs entry_loop in the main thread and exit_loop in a       *)
(* daemon thread; both act on module-level globals without any lock.       *)
(* A step of a thread runs from one blocking call or global write to the   *)
(* next, so that every step holds at most one write of place_order's or    *)
(* close_position's globals.                                               *)
(***************************************************************************)
EXTENDS Integers, Sequences, FiniteSets, TLC

\* ---------------------------------------------------------------- constants
STOP_LOSS_POINTS == 20
TAKE_PROFIT_POINTS == 50
TSL_ACTIVATION_POINTS == 20
TSL_TRAIL_POINTS == 10
SPREAD_WIDTH == 200
RSI_OVERBOUGHT == 55
RSI_OVERSOLD == 45
EMA_PERIOD == 200
StrikeStep == 50

\* Time filter boundaries, in minutes since midnight.
MORNING_START == 555
MORNING_END == 660
AFTERNOON_START == 780
AFTERNOON_END == 900

\* ------------------------------------------------------------------- bounds
\* How many entries of LtpTable the quote service may return.
NumLtp == 8
\* How many entries of CloseTable the latest candle close may take.
NumClose == 2

LtpTable == <<100, 105, 115, 121, 118, 90, 150, 50, 80, 130>>
CloseTable == <<100, 115, 90, 105>>

Ltps == {LtpTable[i] : i \in 1..NumLtp}
Closes == {CloseTable[i] : i \in 1..NumClose}

\* Wall-clock times the entry loop may wake at (both sides of every boundary).
Times == {554, 555, 659, 660, 779, 780, 899, 900}

\* Wall-clock times the exit loop's tick is followed at: the last minute of the
\* afternoon window and the session's end.
ExitTimes == {899, 900}

\* Python's None for position, and for a symbol (falsy, like the empty string).
NONE == "None"
NoSymbol == <<>>

\* What client.placeorder can do: status success, another status, or raise.
OrderResults == {"success", "fail", "raise"}

Bots == {"hedge", "single"}

VARIABLES
    bot,                    \* which script runs
    DRY_RUN,                \* its DRY_RUN flag
    current_symbol,
    traded_long_symbol,
    traded_short_symbol,
    traded_option_symbol,
    position,
    entry_price,
    stop_loss,
    take_profit,
    highest_price,
    lowest_price,
    epc,                    \* where the entry thread stands
    e_side,                 \* place_order's side
    e_price,                \* place_order's price
    e_now,                  \* the time check_time_filter read, until place_order starts
    e_latest,               \* entry_loop's latest, until place_order starts
    e_log,                  \* orders the running place_order has sent, answered
    xpc,                    \* where the exit thread stands
    x_price,                \* check_exit_conditions' current_price
    x_reason,               \* close_position's reason
    close_failed,           \* a leg close of the running close_position failed
    x_now,                  \* the wall clock at the exit tick being decided
    x_log,                  \* the orders the running close_position has placed
    scn                     \* ticks of Scenario matched since the open, or -1

config == <<bot, DRY_RUN>>
globals == <<current_symbol, traded_long_symbol, traded_short_symbol,
             traded_option_symbol, position, entry_price, stop_loss,
             take_profit, highest_price, lowest_price>>
entryLocals == <<epc, e_side, e_price, e_now, e_latest, e_log>>
exitLocals == <<xpc, x_price, x_reason, close_failed, x_now, x_log>>
vars == <<bot, DRY_RUN, current_symbol, traded_long_symbol,
          traded_short_symbol, traded_option_symbol, position, entry_price,
          stop_loss, take_profit, highest_price, lowest_price,
          epc, e_side, e_price, e_now, e_latest, e_log,
          xpc, x_price, x_reason, close_failed, x_now, x_log, scn>>

\* ------------------------------------------------------------ pure helpers
\* A strike taken by integer division, always the multiple below the price.
FloorDiv(n, d) == n \div d

\* Python's round(): to the nearest integer, ties to the even one (n >= 0).
PyRoundDiv(n, d) ==
    LET q == n \div d
        r == n % d
    IN  IF 2 * r < d THEN q
        ELSE IF 2 * r > d THEN q + 1
        ELSE IF q % 2 = 0 THEN q ELSE q + 1

\* A symbol is the sequence of its parts; str.replace("FUT", "") drops the part.
StripFut(sym) == SelectSeq(sym, LAMBDA part : part # "FUT")

OptType(side) == IF side = "BUY" THEN "CE" ELSE "PE"

FinalStrike(price, side, offset) ==
    LET strike == PyRoundDiv(price, StrikeStep) * StrikeStep
    IN  IF offset > 0
        THEN IF OptType(side) = "CE" THEN strike + offset ELSE strike - offset
        ELSE strike

\* None (the except branch) when future_symbol is None, else the symbol built.
get_option_symbol(future_symbol, price, side, offset) ==
    IF future_symbol = NoSymbol THEN NoSymbol
    ELSE StripFut(future_symbol)
            \o <<ToString(FinalStrike(price, side, offset)), OptType(side)>>

FutureSymbol == <<"NIFTY", "30", "DEC25", "FUT">>

\* What client.search can answer: it raises, reports a failure, or returns data.
SearchResponses ==
    { [status |-> "raise", data |-> <<>>],
      [status |-> "error", data |-> <<FutureSymbol>>],
      [status |-> "success", data |-> <<>>],
      [status |-> "success", data |-> << <<"BANKNIFTY", "30", "DEC25", "FUT">> >>],
      [status |-> "success", data |-> << <<"NIFTY", "NXT", "DEC25", "FUT">> >>],
      [status |-> "success", data |-> << <<"NIFTY", "30", "JAN26", "FUT">> >>],
      [status |-> "success",
       data |-> << <<"BANKNIFTY", "30", "DEC25", "FUT">>, FutureSymbol >>] }

\* The parts that are two digits.
DayParts == {"30", "24"}

\* endswith(target_suffix), startswith(SYMBOL_PREFIX), no "BANK" in it, and two
\* digits right after the prefix; what lies between them and the suffix is free.
IsCandidate(sym) ==
    /\ Len(sym) >= 4
    /\ sym[Len(sym) - 1] = "DEC25" /\ sym[Len(sym)] = "FUT"
    /\ sym[1] = "NIFTY"
    /\ \A i \in 1..Len(sym) : sym[i] \notin {"BANK", "BANKNIFTY"}
    /\ sym[2] \in DayParts

\* A resolver that keeps the last candidate of the search.
resolve_last_candidate(response) ==
    IF response.status = "success"
    THEN LET candidates == SelectSeq(response.data, IsCandidate)
         IN  IF candidates # <<>> THEN candidates[Len(candidates)] ELSE NoSymbol
    ELSE NoSymbol

resolve_current_symbol(response) ==
    IF response.status = "success"
    THEN LET candidates == SelectSeq(response.data, IsCandidate)
         IN  IF candidates # <<>> THEN candidates[1] ELSE NoSymbol
    ELSE NoSymbol

\* A time filter whose windows include their closing minute.
check_time_filter_closed(now) ==
    \/ (MORNING_START <= now /\ now <= MORNING_END)
    \/ (AFTERNOON_START <= now /\ now <= AFTERNOON_END)

check_time_filter(now) ==
    \/ (MORNING_START <= now /\ now < MORNING_END)
    \/ (AFTERNOON_START <= now /\ now < AFTERNOON_END)

\* How many candles the history request may return, besides none at all.
CandleCounts == {EMA_PERIOD - 1, EMA_PERIOD}

\* calculate_indicators on no candles: None.
NoLatest ==
    [ok |-> FALSE, n |-> 0, close |-> 0, ema |-> 0, rsi |-> 0,
     macd_line |-> 0, macd_signal |-> 0]

\* The last row of calculate_indicators over n candles, or none when no candle
\* came back. The exponential averages are defined from the first row on, so
\* every row of values arises for any n of CandleCounts.
Indicators ==
    [ok : {TRUE}, n : CandleCounts, close : Closes, ema : {85, 120},
     rsi : {44, 45, 55, 56}, macd_line : {-1, 0, 1}, macd_signal : {0}]
    \cup {NoLatest}

\* An entry rule whose RSI comparisons admit the thresholds themselves.
EntrySignalInclusive(latest) ==
    IF ~latest.ok THEN "NONE"
    ELSE IF /\ latest.close > latest.ema
            /\ latest.rsi <= RSI_OVERSOLD
            /\ latest.macd_line > latest.macd_signal
         THEN "BUY"
    ELSE IF /\ latest.close < latest.ema
            /\ latest.rsi >= RSI_OVERBOUGHT
            /\ latest.macd_line < latest.macd_signal
         THEN "SELL"
    ELSE "NONE"

\* entry_loop from `if not candles` / `if latest is None` to the if / elif.
EntrySignal(latest) ==
    IF ~latest.ok THEN "NONE"
    ELSE IF /\ latest.close > latest.ema
            /\ latest.rsi < RSI_OVERSOLD
            /\ latest.macd_line > latest.macd_signal
         THEN "BUY"
    ELSE IF /\ latest.close < latest.ema
            /\ latest.rsi > RSI_OVERBOUGHT
            /\ latest.macd_line < latest.macd_signal
         THEN "SELL"
    ELSE "NONE"

PositionFor(side) ==
    IF bot = "hedge"
    THEN IF side = "BUY" THEN "BULL_SPREAD" ELSE "BEAR_SPREAD"
    ELSE IF side = "BUY" THEN "LONG" ELSE "SHORT"

IsLong(p) == p \in {"BULL_SPREAD", "LONG", "BUY"}
IsShort(p) == p \in {"BEAR_SPREAD", "SHORT", "SELL"}

NoDecision == [side |-> "NONE", now |-> 0, latest |-> NoLatest]

\* What one iteration of entry_loop decides at time now on the row latest,
\* before it looks at position: the side with the inputs that gave it, or
\* NoDecision when the time filter, the candle fetch or the rule gives no entry.
Decision(now, latest) ==
    IF check_time_filter(now) /\ EntrySignal(latest) # "NONE"
    THEN [side |-> EntrySignal(latest), now |-> now, latest |-> latest]
    ELSE NoDecision

EntryDecisions == {Decision(now, latest) : now \in Times, latest \in Indicators}

atm_sym == get_option_symbol(current_symbol, e_price, e_side, 0)
otm_sym == get_option_symbol(current_symbol, e_price, e_side, SPREAD_WIDTH)

Scenario == <<100, 105, 115, 121, 118, 90>>

\* --------------------------------------------------------------------- Init
Init ==
    /\ bot \in Bots
    /\ DRY_RUN \in BOOLEAN
    /\ current_symbol = NoSymbol
    /\ traded_long_symbol = NoSymbol
    /\ traded_short_symbol = NoSymbol
    /\ traded_option_symbol = NoSymbol
    /\ position = NONE
    /\ entry_price = 0
    /\ stop_loss = 0
    /\ take_profit = 0
    /\ highest_price = 0
    /\ lowest_price = 0
    /\ epc = "idle" /\ e_side = "" /\ e_price = 0
    /\ e_now = 0 /\ e_latest = NoLatest /\ e_log = <<>>
    /\ xpc = "idle" /\ x_price = 0 /\ x_reason = "" /\ close_failed = FALSE
    /\ x_now = 0 /\ x_log = <<>>
    /\ scn = -1

\* ------------------------------------------------------------- entry thread
\* An order of place_order and the status the gateway answered.
PlacedOrder(action, symbol, status) ==
    [action |-> action, symbol |-> symbol, status |-> status]

EntryReturn ==
    epc' = "idle" /\ e_side' = "" /\ e_price' = 0 /\ e_log' = <<>>

\* An exception of client.placeorder that nothing catches: the thread ends.
PlaceOrderUncaught ==
    epc' = "halted" /\ e_side' = "" /\ e_price' = 0 /\ e_log' = <<>>

\* place_order, `except Exception as e`: the error is logged, the call returns.
PlaceOrderExcept == EntryReturn

\* An entry loop that does not look at position.
EntryGuardOpen == TRUE

\* entry_loop, `if position is None`
EntryGuard == position = NONE

\* entry_loop while current_symbol is unset: search, keep the first candidate.
EntryResolve ==
    /\ epc = "idle"
    /\ current_symbol = NoSymbol
    /\ \E response \in SearchResponses :
           current_symbol' = resolve_current_symbol(response)
    /\ UNCHANGED <<bot, DRY_RUN, traded_long_symbol, traded_short_symbol,
                   traded_option_symbol, position, entry_price, stop_loss,
                   take_profit, highest_price, lowest_price,
                   entryLocals, exitLocals, scn>>

\* An entry loop that goes on to the candles without a resolved future.
SymbolResolvedAlways == TRUE

\* entry_loop, `if not current_symbol: ... continue` after the resolution.
SymbolResolved == current_symbol # NoSymbol

\* place_order, `if not atm_sym or not otm_sym` / `if not opt_sym`.
SymbolsBuilt ==
    IF bot = "hedge" THEN atm_sym # NoSymbol /\ otm_sym # NoSymbol
    ELSE atm_sym # NoSymbol

\* One iteration of entry_loop up to the call of place_order and, in it, up to
\* the first global write or order.
EntryTick ==
    /\ epc = "idle"
    /\ SymbolResolved
    /\ \E decision \in EntryDecisions :
         IF EntryGuard /\ decision.side # "NONE"
         THEN /\ e_side' = decision.side
              /\ e_price' = decision.latest.close
              /\ e_now' = decision.now
              /\ e_latest' = decision.latest
              /\ UNCHANGED e_log
              /\ epc' = IF bot = "hedge"
                        THEN IF DRY_RUN THEN "dry_long" ELSE "leg1"
                        ELSE "opt_sym"
         ELSE UNCHANGED entryLocals
    /\ UNCHANGED <<config, globals, exitLocals, scn>>

\* place_order of hedge_bot.py, DRY_RUN: the two leg symbols, then the levels.
DryLong ==
    /\ epc = "dry_long"
    /\ e_now' = 0 /\ e_latest' = NoLatest
    /\ IF SymbolsBuilt
       THEN /\ traded_long_symbol' = atm_sym
            /\ epc' = "dry_short"
            /\ UNCHANGED <<e_side, e_price, e_log>>
       ELSE EntryReturn /\ UNCHANGED traded_long_symbol
    /\ UNCHANGED <<config, current_symbol, traded_short_symbol,
                   traded_option_symbol, position, entry_price, stop_loss,
                   take_profit, highest_price, lowest_price, exitLocals, scn>>

\* A simulated open that does not record the short leg.
DryShortUnrecorded ==
    /\ epc = "dry_short"
    /\ epc' = "w_position"
    /\ UNCHANGED <<config, globals, e_side, e_price, e_now, e_latest, e_log,
                   exitLocals, scn>>

DryShort ==
    /\ epc = "dry_short"
    /\ UNCHANGED <<e_now, e_latest, e_log>>
    /\ traded_short_symbol' = otm_sym
    /\ epc' = "w_position"
    /\ UNCHANGED <<config, current_symbol, traded_long_symbol,
                   traded_option_symbol, position, entry_price, stop_loss,
                   take_profit, highest_price, lowest_price,
                   e_side, e_price, exitLocals, scn>>

\* A place_order that goes on to the hedge leg on any answer of the gateway.
PrimaryFilledOnAnswer(res1) == res1 # "raise"

\* place_order of hedge_bot.py, `if res1.get('status') == 'success'`.
PrimaryFilled(res1) == res1 = "success"

\* place_order of hedge_bot.py, leg 1: buy the ATM option.
HedgeLeg1 ==
    /\ epc = "leg1"
    /\ e_now' = 0 /\ e_latest' = NoLatest
    /\ IF SymbolsBuilt
       THEN \E res1 \in OrderResults :
              IF PrimaryFilled(res1)
              THEN /\ traded_long_symbol' = atm_sym
                   /\ e_log' = <<PlacedOrder("BUY", atm_sym, res1)>>
                   /\ epc' = "leg2"
                   /\ UNCHANGED <<e_side, e_price>>
              ELSE /\ EntryReturn
                   /\ UNCHANGED traded_long_symbol
       ELSE EntryReturn /\ UNCHANGED traded_long_symbol
    /\ UNCHANGED <<config, current_symbol, traded_short_symbol,
                   traded_option_symbol, position, entry_price, stop_loss,
                   take_profit, highest_price, lowest_price, exitLocals, scn>>

\* place_order of hedge_bot.py, leg 2: sell the OTM option. A non-success answer
\* takes the "Leg 2 Failed" branch, an exception leaves place_order.
HedgeLeg2 ==
    /\ epc = "leg2"
    /\ UNCHANGED <<e_now, e_latest>>
    /\ \E res2 \in OrderResults :
         CASE res2 = "success" ->
                /\ traded_short_symbol' = otm_sym
                /\ epc' = "w_position"
                /\ e_log' = Append(e_log, PlacedOrder("SELL", otm_sym, res2))
                /\ UNCHANGED <<position, e_side, e_price>>
           [] res2 = "fail" ->
                /\ position' = PositionFor(e_side)
                /\ epc' = "deg_entry"
                /\ e_log' = Append(e_log, PlacedOrder("SELL", otm_sym, res2))
                /\ UNCHANGED <<traded_short_symbol, e_side, e_price>>
           [] res2 = "raise" ->
                /\ PlaceOrderExcept
                /\ UNCHANGED <<traded_short_symbol, position>>
    /\ UNCHANGED <<config, current_symbol, traded_long_symbol,
                   traded_option_symbol, entry_price, stop_loss,
                   take_profit, highest_price, lowest_price, exitLocals, scn>>

\* The "Leg 2 Failed" branch's second and last write.
DegradedEntry ==
    /\ epc = "deg_entry"
    /\ UNCHANGED <<e_now, e_latest>>
    /\ entry_price' = e_price
    /\ EntryReturn
    /\ UNCHANGED <<config, current_symbol, traded_long_symbol,
                   traded_short_symbol, traded_option_symbol, position,
                   stop_loss, take_profit, highest_price, lowest_price,
                   exitLocals, scn>>

\* place_order of confluence_bot.py: traded_option_symbol = opt_sym.
SingleSymbol ==
    /\ epc = "opt_sym"
    /\ e_now' = 0 /\ e_latest' = NoLatest
    /\ IF SymbolsBuilt
       THEN /\ traded_option_symbol' = atm_sym
            /\ epc' = IF DRY_RUN THEN "w_position" ELSE "order"
            /\ UNCHANGED <<e_side, e_price, e_log>>
       ELSE EntryReturn /\ UNCHANGED traded_option_symbol
    /\ UNCHANGED <<config, current_symbol, traded_long_symbol,
                   traded_short_symbol, position, entry_price, stop_loss,
                   take_profit, highest_price, lowest_price, exitLocals, scn>>

\* place_order of confluence_bot.py, the live order.
SingleOrder ==
    /\ epc = "order"
    /\ UNCHANGED <<e_now, e_latest>>
    /\ \E response \in OrderResults :
         IF response = "success"
         THEN /\ position' = PositionFor(e_side)
              /\ epc' = "w_entry"
              /\ e_log' = <<PlacedOrder("BUY", atm_sym, response)>>
              /\ UNCHANGED <<e_side, e_price>>
         ELSE /\ EntryReturn
              /\ UNCHANGED position
    /\ UNCHANGED <<config, current_symbol, traded_long_symbol,
                   traded_short_symbol, traded_option_symbol, entry_price,
                   stop_loss, take_profit, highest_price, lowest_price,
                   exitLocals, scn>>

\* position = ... of the full open (both scripts' DRY_RUN, hedge_bot's live path).
WritePosition ==
    /\ epc = "w_position"
    /\ UNCHANGED <<e_now, e_latest, e_log>>
    /\ position' = PositionFor(e_side)
    /\ epc' = "w_entry"
    /\ UNCHANGED <<config, current_symbol, traded_long_symbol,
                   traded_short_symbol, traded_option_symbol, entry_price,
                   stop_loss, take_profit, highest_price, lowest_price,
                   e_side, e_price, exitLocals, scn>>

WriteEntryPrice ==
    /\ epc = "w_entry"
    /\ UNCHANGED <<e_now, e_latest, e_log>>
    /\ entry_price' = e_price
    /\ epc' = "w_sl"
    /\ UNCHANGED <<config, current_symbol, traded_long_symbol,
                   traded_short_symbol, traded_option_symbol, position,
                   stop_loss, take_profit, highest_price, lowest_price,
                   e_side, e_price, exitLocals, scn>>

InitialStop(side, entry) ==
    IF side = "BUY" THEN entry - STOP_LOSS_POINTS ELSE entry + STOP_LOSS_POINTS

InitialTarget(side, entry) ==
    IF side = "BUY" THEN entry + TAKE_PROFIT_POINTS ELSE entry - TAKE_PROFIT_POINTS

WriteStopLoss ==
    /\ epc = "w_sl"
    /\ UNCHANGED <<e_now, e_latest, e_log>>
    /\ stop_loss' = InitialStop(e_side, entry_price)
    /\ epc' = "w_tp"
    /\ UNCHANGED <<config, current_symbol, traded_long_symbol,
                   traded_short_symbol, traded_option_symbol, position,
                   entry_price, take_profit, highest_price, lowest_price,
                   e_side, e_price, exitLocals, scn>>

WriteTakeProfit ==
    /\ epc = "w_tp"
    /\ UNCHANGED <<e_now, e_latest, e_log>>
    /\ take_profit' = InitialTarget(e_side, entry_price)
    /\ epc' = "w_extreme"
    /\ UNCHANGED <<config, current_symbol, traded_long_symbol,
                   traded_short_symbol, traded_option_symbol, position,
                   entry_price, stop_loss, highest_price, lowest_price,
                   e_side, e_price, exitLocals, scn>>

\* The open's levels as place_order leaves them when nothing ran in between.
FreshLong(entry) ==
    /\ IsLong(position)
    /\ entry_price = entry
    /\ stop_loss = entry - STOP_LOSS_POINTS
    /\ take_profit = entry + TAKE_PROFIT_POINTS

\* highest_price / lowest_price = entry_price, place_order's last write.
WriteExtreme ==
    /\ epc = "w_extreme"
    /\ UNCHANGED <<e_now, e_latest>>
    /\ IF e_side = "BUY"
       THEN highest_price' = entry_price /\ UNCHANGED lowest_price
       ELSE lowest_price' = entry_price /\ UNCHANGED highest_price
    /\ EntryReturn
    /\ scn' = IF e_side = "BUY" /\ FreshLong(Scenario[1]) /\ xpc = "idle"
              THEN 0 ELSE -1
    /\ UNCHANGED <<config, current_symbol, traded_long_symbol,
                   traded_short_symbol, traded_option_symbol, position,
                   entry_price, stop_loss, take_profit, exitLocals>>

\* -------------------------------------------------------------- exit thread
\* `if new_sl > stop_loss` (long) and `if new_sl < stop_loss` (short)
TightensLong(new_sl, sl) == new_sl > sl
TightensShort(new_sl, sl) == new_sl < sl

\* A trailing stop that keeps the initial stop distance.
NewStopLongWide(extreme) == extreme - STOP_LOSS_POINTS

\* new_sl = highest_price - TSL_TRAIL_POINTS, new_sl = lowest_price + TSL_TRAIL_POINTS
NewStopLong(extreme) == extreme - TSL_TRAIL_POINTS
NewStopShort(extreme) == extreme + TSL_TRAIL_POINTS

\* A trailing stop that follows the price instead of the extreme.
TrailFromPrice(current_price) ==
    IF IsLong(position)
    THEN <<IF current_price > highest_price THEN current_price ELSE highest_price,
           lowest_price,
           IF current_price - entry_price >= TSL_ACTIVATION_POINTS
           THEN NewStopLong(current_price) ELSE stop_loss>>
    ELSE IF IsShort(position)
    THEN <<highest_price,
           IF current_price < lowest_price THEN current_price ELSE lowest_price,
           IF entry_price - current_price >= TSL_ACTIVATION_POINTS
           THEN NewStopShort(current_price) ELSE stop_loss>>
    ELSE <<highest_price, lowest_price, stop_loss>>

\* check_exit_conditions, the trailing part: the new <<highest_price,
\* lowest_price, stop_loss>> for current_price.
Trail(current_price) ==
    IF IsLong(position)
    THEN IF current_price > highest_price
         THEN LET new_sl == NewStopLong(current_price) IN
              <<current_price, lowest_price,
                IF current_price - entry_price >= TSL_ACTIVATION_POINTS
                   /\ TightensLong(new_sl, stop_loss)
                THEN new_sl ELSE stop_loss>>
         ELSE <<highest_price, lowest_price, stop_loss>>
    ELSE IF IsShort(position)
    THEN IF current_price < lowest_price
         THEN LET new_sl == NewStopShort(current_price) IN
              <<highest_price, current_price,
                IF entry_price - current_price >= TSL_ACTIVATION_POINTS
                   /\ TightensShort(new_sl, stop_loss)
                THEN new_sl ELSE stop_loss>>
         ELSE <<highest_price, lowest_price, stop_loss>>
    ELSE <<highest_price, lowest_price, stop_loss>>

\* An exit loop that polls only while the time filter admits entries.
ExitPollGuardInWindow(now) ==
    position # NONE /\ current_symbol # NoSymbol /\ check_time_filter(now)

\* An exit loop that polls whether a position is held or not.
ExitPollGuardAlways(now) == current_symbol # NoSymbol

\* exit_loop, `if position is not None and current_symbol`, at wall-clock time
\* now: the loop never reads the clock.
ExitPollGuard(now) == position # NONE /\ current_symbol # NoSymbol

\* An exit loop that hands every answer of get_ltp to check_exit_conditions.
QuoteUsableAny(ltp) == TRUE

\* exit_loop, `if ltp > 0`: get_ltp answers 0.0 for a failed or empty quote.
QuoteUsable(ltp) == ltp > 0

\* One iteration of exit_loop at time now with the quote ltp, up to the end of
\* the trailing part of check_exit_conditions; get_ltp answers 0.0 when the
\* quote fails.
ExitTickAt(now, ltp) ==
    /\ xpc = "idle"
    /\ IF ExitPollGuard(now) /\ QuoteUsable(ltp)
       THEN /\ highest_price' = Trail(ltp)[1]
            /\ lowest_price' = Trail(ltp)[2]
            /\ stop_loss' = Trail(ltp)[3]
            /\ x_price' = ltp
            /\ x_now' = now
            /\ xpc' = "decide"
            /\ scn' = IF scn \in 0..(Len(Scenario) - 1)
                         /\ ltp = Scenario[scn + 1]
                      THEN scn + 1 ELSE -1
       ELSE UNCHANGED <<highest_price, lowest_price, stop_loss,
                        x_price, x_now, xpc, scn>>
    /\ UNCHANGED <<config, current_symbol, traded_long_symbol,
                   traded_short_symbol, traded_option_symbol, position,
                   entry_price, take_profit, entryLocals, x_reason,
                   close_failed, x_log>>

ExitTick == \E now \in ExitTimes, ltp \in Ltps \cup {0} : ExitTickAt(now, ltp)

StopReason == IF bot = "hedge" THEN "STOP LOSS/TSL" ELSE "STOP LOSS / TRAILING SL"
TargetReason == "TAKE PROFIT"

\* An exit check that tests the take-profit before the stop-loss.
ExitReasonTargetFirst(current_price) ==
    IF IsLong(position)
    THEN IF current_price >= take_profit THEN TargetReason
         ELSE IF current_price <= stop_loss THEN StopReason ELSE ""
    ELSE IF IsShort(position)
    THEN IF current_price <= take_profit THEN TargetReason
         ELSE IF current_price >= stop_loss THEN StopReason ELSE ""
    ELSE ""

\* check_exit_conditions, the if / elif that closes: the reason, or "" for none.
ExitReason(current_price) ==
    IF IsLong(position)
    THEN IF current_price <= stop_loss THEN StopReason
         ELSE IF current_price >= take_profit THEN TargetReason ELSE ""
    ELSE IF IsShort(position)
    THEN IF current_price >= stop_loss THEN StopReason
         ELSE IF current_price <= take_profit THEN TargetReason ELSE ""
    ELSE ""

ExitReturn ==
    /\ xpc' = "idle" /\ x_price' = 0 /\ x_reason' = "" /\ close_failed' = FALSE
    /\ x_now' = 0 /\ x_log' = <<>>

\* The close decision, and close_position up to its first order or write.
ExitDecide ==
    /\ xpc = "decide"
    /\ IF ExitReason(x_price) = ""
       THEN ExitReturn
       ELSE /\ x_reason' = ExitReason(x_price)
            /\ xpc' = IF DRY_RUN THEN "r_position"
                      ELSE IF bot = "hedge" THEN "cl_short" ELSE "cl_order"
            /\ x_now' = 0
            /\ UNCHANGED <<x_price, close_failed, x_log>>
    /\ UNCHANGED <<config, globals, entryLocals, scn>>

\* The arguments of a closing client.placeorder that differ between orders.
CloseOrder(action, symbol) == [action |-> action, symbol |-> symbol]

\* close_position of confluence_bot.py, IS_OPTION_BUYING: what it sells.
exit_symbol ==
    IF traded_option_symbol # NoSymbol THEN traded_option_symbol ELSE current_symbol

\* A close_position that goes on to the long leg without covering the short.
CloseShortSkipped ==
    /\ xpc = "cl_short"
    /\ xpc' = "cl_long"
    /\ UNCHANGED <<config, globals, entryLocals, x_price, x_reason,
                   close_failed, x_now, x_log, scn>>

\* A close_position that covers a short leg whether or not one is recorded.
ShortLegAssumed == TRUE

\* close_position of hedge_bot.py, `if traded_short_symbol:`.
ShortLegRecorded == traded_short_symbol # NoSymbol

\* close_position of hedge_bot.py: buy back the short leg if one is recorded.
CloseShort ==
    /\ xpc = "cl_short"
    /\ UNCHANGED x_now
    /\ IF ShortLegRecorded
       THEN \E res1 \in OrderResults :
              /\ x_log' = Append(x_log, CloseOrder("BUY", traded_short_symbol))
              /\ close_failed' = (close_failed \/ res1 # "success")
              /\ xpc' = IF res1 = "raise" THEN "r_position" ELSE "cl_long"
       ELSE xpc' = "cl_long" /\ UNCHANGED <<close_failed, x_log>>
    /\ UNCHANGED <<config, globals, entryLocals, x_price, x_reason, scn>>

\* close_position of hedge_bot.py: sell the long leg if one is recorded.
CloseLong ==
    /\ xpc = "cl_long"
    /\ UNCHANGED x_now
    /\ IF traded_long_symbol # NoSymbol
       THEN \E res2 \in OrderResults :
              /\ x_log' = Append(x_log, CloseOrder("SELL", traded_long_symbol))
              /\ close_failed' = (close_failed \/ res2 # "success")
       ELSE UNCHANGED <<close_failed, x_log>>
    /\ xpc' = "r_position"
    /\ UNCHANGED <<config, globals, entryLocals, x_price, x_reason, scn>>

\* close_position of confluence_bot.py: one SELL of the exit symbol.
CloseSingle ==
    /\ xpc = "cl_order"
    /\ UNCHANGED x_now
    /\ x_log' = Append(x_log, CloseOrder("SELL", exit_symbol))
    /\ \E response \in OrderResults :
         close_failed' = (close_failed \/ response # "success")
    /\ xpc' = "r_position"
    /\ UNCHANGED <<config, globals, entryLocals, x_price, x_reason, scn>>

\* close_position's unconditional resets, one global at a time. Its price and
\* reason are only logged, before the first reset.
ResetPosition ==
    /\ xpc = "r_position"
    /\ UNCHANGED x_now
    /\ position' = NONE
    /\ xpc' = "r_entry"
    /\ x_price' = 0
    /\ x_reason' = ""
    /\ close_failed' = FALSE
    /\ x_log' = <<>>
    /\ scn' = -1
    /\ UNCHANGED <<config, current_symbol, traded_long_symbol,
                   traded_short_symbol, traded_option_symbol, entry_price,
                   stop_loss, take_profit, highest_price, lowest_price,
                   entryLocals>>

ResetEntryPrice ==
    /\ xpc = "r_entry"
    /\ UNCHANGED <<x_now, x_log>>
    /\ entry_price' = 0
    /\ xpc' = "r_sl"
    /\ UNCHANGED <<config, current_symbol, traded_long_symbol,
                   traded_short_symbol, traded_option_symbol, position,
                   stop_loss, take_profit, highest_price, lowest_price,
                   entryLocals, x_price, x_reason, close_failed, scn>>

ResetStopLoss ==
    /\ xpc = "r_sl"
    /\ UNCHANGED <<x_now, x_log>>
    /\ stop_loss' = 0
    /\ xpc' = "r_tp"
    /\ UNCHANGED <<config, current_symbol, traded_long_symbol,
                   traded_short_symbol, traded_option_symbol, position,
                   entry_price, take_profit, highest_price, lowest_price,
                   entryLocals, x_price, x_reason, close_failed, scn>>

ResetTakeProfit ==
    /\ xpc = "r_tp"
    /\ UNCHANGED <<x_now, x_log>>
    /\ take_profit' = 0
    /\ xpc' = IF bot = "hedge" THEN "r_long" ELSE "r_option"
    /\ UNCHANGED <<config, current_symbol, traded_long_symbol,
                   traded_short_symbol, traded_option_symbol, position,
                   entry_price, stop_loss, highest_price, lowest_price,
                   entryLocals, x_price, x_reason, close_failed, scn>>

ResetLongSymbol ==
    /\ xpc = "r_long"
    /\ UNCHANGED <<x_now, x_log>>
    /\ traded_long_symbol' = NoSymbol
    /\ xpc' = "r_short"
    /\ UNCHANGED <<config, current_symbol, traded_short_symbol,
                   traded_option_symbol, position, entry_price, stop_loss,
                   take_profit, highest_price, lowest_price,
                   entryLocals, x_price, x_reason, close_failed, scn>>

ResetShortSymbol ==
    /\ xpc = "r_short"
    /\ traded_short_symbol' = NoSymbol
    /\ ExitReturn
    /\ UNCHANGED <<config, current_symbol, traded_long_symbol,
                   traded_option_symbol, position, entry_price, stop_loss,
                   take_profit, highest_price, lowest_price, entryLocals, scn>>

ResetOptionSymbol ==
    /\ xpc = "r_option"
    /\ traded_option_symbol' = NoSymbol
    /\ ExitReturn
    /\ UNCHANGED <<config, current_symbol, traded_long_symbol,
                   traded_short_symbol, position, entry_price, stop_loss,
                   take_profit, highest_price, lowest_price, entryLocals, scn>>

\* --------------------------------------------------------------------- Next
Next ==
    \/ EntryResolve
    \/ EntryTick
    \/ DryLong
    \/ DryShort
    \/ HedgeLeg1
    \/ HedgeLeg2
    \/ DegradedEntry
    \/ SingleSymbol
    \/ SingleOrder
    \/ WritePosition
    \/ WriteEntryPrice
    \/ WriteStopLoss
    \/ WriteTakeProfit
    \/ WriteExtreme
    \/ ExitTick
    \/ ExitDecide
    \/ CloseShort
    \/ CloseLong
    \/ CloseSingle
    \/ ResetPosition
    \/ ResetEntryPrice
    \/ ResetStopLoss
    \/ ResetTakeProfit
    \/ ResetLongSymbol
    \/ ResetShortSymbol
    \/ ResetOptionSymbol

Spec == Init /\ [][Next]_vars

\* ------------------------------------- the two check_exit_conditions apart
\* What one call leaves: the extremes, the stop and the reason it closes with
\* ("" when it does not close).
Checked(hi, lo, sl, reason) ==
    [highest |-> hi, lowest |-> lo, stop |-> sl, reason |-> reason]

\* A hedge_bot.py check that tests the take-profit before the stop-loss.
hedge_check_target_first(pos, entry, sl, tp, hi, lo, current_price) ==
    IF pos = "BULL_SPREAD"
    THEN LET hi2 == IF current_price > hi THEN current_price ELSE hi
             sl2 == IF /\ current_price > hi
                       /\ hi2 - entry >= TSL_ACTIVATION_POINTS
                       /\ hi2 - TSL_TRAIL_POINTS > sl
                    THEN hi2 - TSL_TRAIL_POINTS ELSE sl
         IN  Checked(hi2, lo, sl2,
                     IF current_price >= tp THEN "TAKE PROFIT"
                     ELSE IF current_price <= sl2 THEN "STOP LOSS/TSL" ELSE "")
    ELSE IF pos = "BEAR_SPREAD"
    THEN LET lo2 == IF current_price < lo THEN current_price ELSE lo
             sl2 == IF /\ current_price < lo
                       /\ entry - lo2 >= TSL_ACTIVATION_POINTS
                       /\ lo2 + TSL_TRAIL_POINTS < sl
                    THEN lo2 + TSL_TRAIL_POINTS ELSE sl
         IN  Checked(hi, lo2, sl2,
                     IF current_price <= tp THEN "TAKE PROFIT"
                     ELSE IF current_price >= sl2 THEN "STOP LOSS/TSL" ELSE "")
    ELSE Checked(hi, lo, sl, "")

\* check_exit_conditions of hedge_bot.py on the globals it reads.
hedge_check(pos, entry, sl, tp, hi, lo, current_price) ==
    IF pos = "BULL_SPREAD"
    THEN LET hi2 == IF current_price > hi THEN current_price ELSE hi
             sl2 == IF /\ current_price > hi
                       /\ hi2 - entry >= TSL_ACTIVATION_POINTS
                       /\ hi2 - TSL_TRAIL_POINTS > sl
                    THEN hi2 - TSL_TRAIL_POINTS ELSE sl
         IN  Checked(hi2, lo, sl2,
                     IF current_price <= sl2 THEN "STOP LOSS/TSL"
                     ELSE IF current_price >= tp THEN "TAKE PROFIT" ELSE "")
    ELSE IF pos = "BEAR_SPREAD"
    THEN LET lo2 == IF current_price < lo THEN current_price ELSE lo
             sl2 == IF /\ current_price < lo
                       /\ entry - lo2 >= TSL_ACTIVATION_POINTS
                       /\ lo2 + TSL_TRAIL_POINTS < sl
                    THEN lo2 + TSL_TRAIL_POINTS ELSE sl
         IN  Checked(hi, lo2, sl2,
                     IF current_price >= sl2 THEN "STOP LOSS/TSL"
                     ELSE IF current_price <= tp THEN "TAKE PROFIT" ELSE "")
    ELSE Checked(hi, lo, sl, "")

\* check_exit_conditions of confluence_bot.py on the globals it reads.
confluence_check(pos, entry, sl, tp, hi, lo, current_price) ==
    IF pos = "BUY" \/ pos = "LONG"
    THEN LET hi2 == IF current_price > hi THEN current_price ELSE hi
             profit_points == hi2 - entry
             new_sl == hi2 - TSL_TRAIL_POINTS
             sl2 == IF /\ current_price > hi
                       /\ profit_points >= TSL_ACTIVATION_POINTS
                       /\ new_sl > sl
                    THEN new_sl ELSE sl
         IN  Checked(hi2, lo, sl2,
                     IF current_price <= sl2 THEN "STOP LOSS / TRAILING SL"
                     ELSE IF current_price >= tp THEN "TAKE PROFIT" ELSE "")
    ELSE IF pos = "SELL" \/ pos = "SHORT"
    THEN LET lo2 == IF current_price < lo THEN current_price ELSE lo
             profit_points == entry - lo2
             new_sl == lo2 + TSL_TRAIL_POINTS
             sl2 == IF /\ current_price < lo
                       /\ profit_points >= TSL_ACTIVATION_POINTS
                       /\ new_sl < sl
                    THEN new_sl ELSE sl
         IN  Checked(hi, lo2, sl2,
                     IF current_price >= sl2 THEN "STOP LOSS / TRAILING SL"
                     ELSE IF current_price <= tp THEN "TAKE PROFIT" ELSE "")
    ELSE Checked(hi, lo, sl, "")

\* ------------------------------------------- the calls run one at a time
\* place_order, check_exit_conditions and close_position as functions: the
\* same steps, none of them taken while the other thread is inside a call.
SeqNext ==
    \/ xpc = "idle" /\ EntryResolve
    \/ xpc = "idle" /\ EntryTick
    \/ xpc = "idle" /\ DryLong
    \/ xpc = "idle" /\ DryShort
    \/ xpc = "idle" /\ HedgeLeg1
    \/ xpc = "idle" /\ HedgeLeg2
    \/ xpc = "idle" /\ DegradedEntry
    \/ xpc = "idle" /\ SingleSymbol
    \/ xpc = "idle" /\ SingleOrder
    \/ xpc = "idle" /\ WritePosition
    \/ xpc = "idle" /\ WriteEntryPrice
    \/ xpc = "idle" /\ WriteStopLoss
    \/ xpc = "idle" /\ WriteTakeProfit
    \/ xpc = "idle" /\ WriteExtreme
    \/ epc = "idle" /\ ExitTick
    \/ epc = "idle" /\ ExitDecide
    \/ epc = "idle" /\ CloseShort
    \/ epc = "idle" /\ CloseLong
    \/ epc = "idle" /\ CloseSingle
    \/ epc = "idle" /\ ResetPosition
    \/ epc = "idle" /\ ResetEntryPrice
    \/ epc = "idle" /\ ResetStopLoss
    \/ epc = "idle" /\ ResetTakeProfit
    \/ epc = "idle" /\ ResetLongSymbol
    \/ epc = "idle" /\ ResetShortSymbol
    \/ epc = "idle" /\ ResetOptionSymbol

SeqSpec == Init /\ [][SeqNext]_vars

\* ------------------------------------------------- the symbol functions alone
\* The resolver followed by place_order's symbol construction, on search
\* answers, prices and sides drawn at the start.
SymbolPrices ==
    {CloseTable[i] : i \in 1..Len(CloseTable)} \cup {75, 125, 175, 26179}

\* Search answers whose symbols pass the resolver's filter, of the usual
\* layout and not.
SymbolSearchResponses ==
    SearchResponses \cup
    { [status |-> "success", data |-> << <<"NIFTY", "24", "DEC25", "FUT">> >>],
      [status |-> "success", data |-> << <<"NIFTY", "30", "W", "DEC25", "FUT">> >>],
      [status |-> "success",
       data |-> << <<"NIFTY", "30", "FUT", "DEC25", "FUT">>, FutureSymbol >>],
      [status |-> "success",
       data |-> << <<"NIFTY", "24", "DEC25", "FUT">>, FutureSymbol >>],
      [status |-> "success",
       data |-> << FutureSymbol, <<"NIFTY", "24", "DEC25", "FUT">> >>],
      [status |-> "success",
       data |-> << <<"NIFTY", "30", "BANK", "DEC25", "FUT">>,
                   <<"NIFTY", "NXT", "DEC25", "FUT">>,
                   <<"NIFTY", "24", "DEC25", "FUT">> >>] }

SymbolInit ==
    /\ bot \in Bots
    /\ DRY_RUN \in BOOLEAN
    /\ current_symbol = NoSymbol
    /\ traded_long_symbol = NoSymbol
    /\ traded_short_symbol = NoSymbol
    /\ traded_option_symbol = NoSymbol
    /\ position = NONE
    /\ entry_price = 0
    /\ stop_loss = 0
    /\ take_profit = 0
    /\ highest_price = 0
    /\ lowest_price = 0
    /\ epc = "symbols" /\ e_side \in {"BUY", "SELL"} /\ e_price \in SymbolPrices
    /\ e_now = 0 /\ e_latest = NoLatest /\ e_log = <<>>
    /\ xpc = "idle" /\ x_price = 0 /\ x_reason = "" /\ close_failed = FALSE
    /\ x_now = 0 /\ x_log = <<>>
    /\ scn = -1

\* entry_loop's resolution of the future.
SymbolResolve ==
    /\ epc = "symbols"
    /\ current_symbol = NoSymbol
    /\ \E response \in SymbolSearchResponses :
           current_symbol' = resolve_current_symbol(response)
    /\ UNCHANGED <<bot, DRY_RUN, traded_long_symbol, traded_short_symbol,
                   traded_option_symbol, position, entry_price, stop_loss,
                   take_profit, highest_price, lowest_price,
                   entryLocals, exitLocals, scn>>

\* place_order up to its symbols: atm_sym and otm_sym of hedge_bot.py, opt_sym
\* of confluence_bot.py, kept in the leg symbols.
BuildSymbols ==
    /\ epc = "symbols"
    /\ current_symbol # NoSymbol
    /\ epc' = "built"
    /\ IF bot = "hedge"
       THEN /\ traded_long_symbol' = atm_sym
            /\ traded_short_symbol' = otm_sym
            /\ UNCHANGED traded_option_symbol
       ELSE /\ traded_option_symbol' = atm_sym
            /\ UNCHANGED <<traded_long_symbol, traded_short_symbol>>
    /\ UNCHANGED <<config, current_symbol, position, entry_price, stop_loss,
                   take_profit, highest_price, lowest_price,
                   e_side, e_price, e_now, e_latest, e_log, exitLocals, scn>>

SymbolNext == SymbolResolve \/ BuildSymbols

SymbolSpec == SymbolInit /\ [][SymbolNext]_vars

\* --------------------------------------------------------------- properties
Quiescent == epc = "idle" /\ xpc = "idle"

LegsRecorded ==
    IF bot = "hedge"
    THEN traded_long_symbol # NoSymbol \/ traded_short_symbol # NoSymbol
    ELSE traded_option_symbol # NoSymbol

\* C1: between the threads' steps (entry loop asleep, exit loop asleep) the
\* recorded legs are empty if and only if position is None.
C1_LegsIffNotFlat == Quiescent => (~LegsRecorded <=> position = NONE)

\* place_order of hedge_bot.py returns after leg 1 succeeded and leg 2 did not.
HedgeFailedReturn ==
    \/ epc = "leg2" /\ epc' = "idle"
    \/ epc = "deg_entry" /\ epc' = "idle"

\* C2: when the hedge leg fails after the primary leg succeeded, place_order
\* ends with the position open and exactly the primary leg recorded.
C2_DegradedOpen ==
    [][HedgeFailedReturn =>
         /\ position' \in {"BULL_SPREAD", "BEAR_SPREAD"}
         /\ traded_long_symbol' # NoSymbol
         /\ traded_short_symbol' = NoSymbol]_vars

\* place_order returns because the primary leg's order failed or raised.
PrimaryFailedReturn ==
    \/ epc = "leg1" /\ epc' = "idle"
    \/ epc = "order" /\ epc' = "idle"

\* C3: when the primary leg's placement fails the engine is FLAT afterwards,
\* with no leg recorded and no level set, in both scripts.
C3_PrimaryFailFlat ==
    [][PrimaryFailedReturn =>
         /\ position' = NONE
         /\ ~LegsRecorded'
         /\ entry_price' = 0 /\ stop_loss' = 0 /\ take_profit' = 0]_vars

\* The entry thread is between place_order's first and last global write.
InOpen ==
    epc \in {"dry_short", "leg2", "order", "w_position", "w_entry", "w_sl",
             "w_tp", "w_extreme", "deg_entry"}

\* C4: the exit loop runs no risk check and no close while the entry thread
\* is between the first and the last write of an open.
C4_NoInterleaving == ~(InOpen /\ xpc # "idle")

\* C5: a tick of check_exit_conditions never loosens the stop: it does not
\* lower stop_loss of a long position nor raise stop_loss of a short one.
C5_TrailNeverLoosens ==
    [][(xpc = "idle" /\ xpc' = "decide") =>
         /\ IsLong(position) => stop_loss' >= stop_loss
         /\ IsShort(position) => stop_loss' <= stop_loss]_vars

\* A tick has raised a long position's stop above its initial level.
C5_Witness ==
    /\ xpc = "decide" /\ epc = "idle"
    /\ IsLong(position)
    /\ entry_price > 0
    /\ stop_loss = x_price - TSL_TRAIL_POINTS
    /\ stop_loss > entry_price - STOP_LOSS_POINTS

BothCrossed ==
    \/ IsLong(position) /\ x_price <= stop_loss /\ x_price >= take_profit
    \/ IsShort(position) /\ x_price >= stop_loss /\ x_price <= take_profit

FirstClosePc ==
    IF DRY_RUN THEN "r_position" ELSE IF bot = "hedge" THEN "cl_short" ELSE "cl_order"

\* C6: when a tick's price crosses both the stop-loss and the take-profit,
\* the tick calls close_position once, with the stop-loss reason.
C6_StopBeforeTarget ==
    [][(xpc = "decide" /\ xpc' # "decide" /\ BothCrossed) =>
         /\ x_reason' = StopReason
         /\ xpc' = FirstClosePc]_vars

\* close_position has just been called for a price that crossed both levels.
C6_Witness ==
    /\ xpc = FirstClosePc
    /\ x_reason = StopReason
    /\ BothCrossed

Closing ==
    xpc \in {"cl_short", "cl_long", "cl_order", "r_position", "r_entry", "r_sl",
             "r_tp", "r_long", "r_short", "r_option"}

\* C7: a long position opened at 100 and fed 100, 105, 115, 121, 118, 90 stays
\* open through 118, has its stop at 80 until the 121 tick raises it to 111,
\* and is closed at the 90 tick with the stop-loss reason.
C7_Scenario ==
    /\ scn \in 0..5 => IsLong(position) /\ ~Closing
    /\ scn \in 0..3 => stop_loss = 80
    /\ scn \in 4..6 => stop_loss = 111 /\ highest_price = 121
    /\ (scn = 6 /\ xpc # "decide") => Closing /\ x_reason = StopReason

C7_Witness == scn = 6 /\ xpc = FirstClosePc /\ x_reason = StopReason

\* The entry thread's step sends an opening order (leg 1, leg 2, the option).
IssuesOpeningOrder == epc \in {"leg1", "leg2", "order"} /\ epc' # epc

\* The entry thread's step calls place_order, or writes a position.
StartsOpen == epc = "idle" /\ epc' # "idle"
OpensPosition ==
    \/ epc = "w_position" /\ epc' = "w_entry"
    \/ epc = "leg2" /\ epc' = "deg_entry"
    \/ epc = "order" /\ epc' = "w_entry"

\* C8: place_order is called, every opening order is sent and every position
\* is opened only while position is None, so a close lies between two opens.
C8_OpenOnlyWhenFlat ==
    [][(StartsOpen \/ IssuesOpeningOrder \/ OpensPosition) => position = NONE]_vars

\* An opening order is about to be sent after an earlier trade was closed
\* (its trailing extreme is still there).
C8_Witness ==
    /\ epc \in {"leg1", "order"}
    /\ position = NONE
    /\ (highest_price > 0 \/ lowest_price > 0)

\* C9: between the threads' steps the reference price, the stop-loss and the
\* take-profit are set if the position is open and cleared if it is FLAT.
C9_LevelsIffOpen ==
    Quiescent =>
        IF position = NONE
        THEN entry_price = 0 /\ stop_loss = 0 /\ take_profit = 0
        ELSE /\ entry_price > 0 /\ stop_loss > 0 /\ take_profit > 0
             /\ IsLong(position) => highest_price >= entry_price
             /\ IsShort(position) => lowest_price > 0 /\ lowest_price <= entry_price

\* C10: close_position does not make the position FLAT when one of its leg
\* closes failed; it leaves the position for a later tick to retry (the entry
\* thread asleep, so that nothing but the close touches the position).
C10_FailedCloseStaysExiting ==
    [][(xpc = "r_position" /\ close_failed /\ epc = "idle") =>
         position' # NONE /\ LegsRecorded']_vars

\* The exit thread's step sends the order that sells the long leg.
ClosesLongLeg ==
    xpc = "cl_long" /\ traded_long_symbol # NoSymbol /\ xpc' = "r_position"

\* C11: when close_position closes a position with both legs recorded, the
\* order that sells the long leg is sent only after the order that buys back
\* the short leg was sent and has returned; the long leg is never closed first.
C11_ShortLegClosedFirst ==
    [][(ClosesLongLeg /\ traded_short_symbol # NoSymbol) =>
         x_log = <<CloseOrder("BUY", traded_short_symbol)>>]_vars

\* Both close orders of a two-leg position were sent, the short leg's first.
C11_Witness ==
    /\ xpc = "r_position"
    /\ traded_short_symbol # NoSymbol
    /\ traded_long_symbol # NoSymbol
    /\ x_log = <<CloseOrder("BUY", traded_short_symbol),
                 CloseOrder("SELL", traded_long_symbol)>>

\* place_order returns and leaves a position behind: after the full open, or
\* after the degraded one of hedge_bot.py.
OpenCompleted ==
    epc \in {"w_extreme", "deg_entry"} /\ epc' = "idle" /\ position' # NONE

\* C12: when place_order has opened a position, a degraded one included, the
\* reference price is the signal price, the stop-loss lies the stop distance
\* and the take-profit the target distance from it on the sides the direction
\* gives, and the trailing extreme is the reference price.
C12_LevelsAtOpen ==
    [][(OpenCompleted /\ xpc = "idle") =>
         /\ entry_price' = e_price
         /\ IsLong(position') =>
              /\ stop_loss' = e_price - STOP_LOSS_POINTS
              /\ take_profit' = e_price + TAKE_PROFIT_POINTS
              /\ highest_price' = e_price
         /\ IsShort(position') =>
              /\ stop_loss' = e_price + STOP_LOSS_POINTS
              /\ take_profit' = e_price - TAKE_PROFIT_POINTS
              /\ lowest_price' = e_price]_vars

\* 09:15 <= t < 11:00 or 13:00 <= t < 15:00, t in minutes since midnight.
InTradingWindow(t) ==
    \/ (9 * 60 + 15 <= t /\ t < 11 * 60)
    \/ (13 * 60 <= t /\ t < 15 * 60)

\* C13: the entry loop calls place_order, so leaves FLAT or sends an order,
\* only at a time inside one of the half-open trading windows [09:15, 11:00)
\* and [13:00, 15:00), whatever the indicators say.
C13_EntryOnlyInWindows ==
    [][StartsOpen => InTradingWindow(e_now')]_vars

\* place_order was called at 09:15 sharp and has not yet acted.
C13_Witness ==
    /\ epc \in {"leg1", "dry_long", "opt_sym"}
    /\ e_now = 9 * 60 + 15
    /\ position = NONE

\* An exit tick at time now with the quote ltp that trails and goes on to the
\* close decision.
ExitTickActs(now, ltp) ==
    ExitTickAt(now, ltp) /\ xpc' = "decide" /\ x_price' = ltp

\* The price of the tick being decided has crossed the stop or the target.
LevelCrossed ==
    \/ IsLong(position) /\ (x_price <= stop_loss \/ x_price >= take_profit)
    \/ IsShort(position) /\ (x_price >= stop_loss \/ x_price <= take_profit)

\* C14: the exit loop does not depend on the trading-hours filter. While a
\* position is held and the exit thread is between ticks, a tick at any time
\* outside both windows with any quote does its trailing update and goes on to
\* the close decision; and the decision of a tick outside the windows whose
\* price has crossed the stop or the target starts the close.
C14_ExitIgnoresWindows ==
    /\ [](xpc = "idle" /\ position # NONE /\ current_symbol # NoSymbol =>
            \A now \in {t \in Times : ~InTradingWindow(t)}, ltp \in Ltps :
                ENABLED ExitTickActs(now, ltp))
    /\ [][(xpc = "decide" /\ xpc' # "decide" /\ ~InTradingWindow(x_now)
             /\ LevelCrossed)
          => xpc' \in {"cl_short", "cl_order", "r_position"}]_vars

\* A tick at 15:00 has just raised the stop of a long position behind a new
\* high.
C14_Witness ==
    /\ xpc = "decide"
    /\ ~InTradingWindow(x_now)
    /\ IsLong(position)
    /\ highest_price = x_price
    /\ stop_loss = x_price - TSL_TRAIL_POINTS
    /\ stop_loss > entry_price - STOP_LOSS_POINTS

\* C15: the close decision of a tick at the end of the session (15:00) with a
\* position still held starts close_position, whether or not the price has
\* crossed the stop or the target (the entry thread asleep).
C15_ClosedAtSessionEnd ==
    [][(xpc = "decide" /\ xpc' # "decide" /\ x_now = 15 * 60 /\ position # NONE
             /\ epc = "idle")
          => xpc' \in {"cl_short", "cl_order", "r_position"}]_vars

\* C16: while position is None and the exit thread is between ticks, the exit
\* thread does nothing: it stays between ticks with no price, reason or order
\* of its own, and a step that is not the entry thread's changes no global.
C16_FlatTickNoOp ==
    [][(xpc = "idle" /\ position = NONE) =>
         /\ exitLocals' = exitLocals
         /\ (entryLocals' = entryLocals /\ current_symbol' = current_symbol)
               => globals' = globals]_vars

\* FLAT again after a trade, the future resolved and both threads asleep: the
\* next exit tick finds position None.
C16_Witness ==
    /\ Quiescent
    /\ position = NONE
    /\ current_symbol # NoSymbol
    /\ (highest_price > 0 \/ lowest_price > 0)
    /\ x_price = 0 /\ x_log = <<>>

EntryPcs ==
    {"idle", "dry_long", "dry_short", "leg1", "leg2", "deg_entry", "opt_sym",
     "order", "w_position", "w_entry", "w_sl", "w_tp", "w_extreme"}
ExitPcs ==
    {"idle", "decide", "cl_short", "cl_long", "cl_order", "r_position",
     "r_entry", "r_sl", "r_tp", "r_long", "r_short", "r_option"}

\* The entry thread, inside place_order, takes its next step.
EntryContinues ==
    \/ DryLong \/ DryShort \/ HedgeLeg1 \/ HedgeLeg2 \/ DegradedEntry
    \/ SingleSymbol \/ SingleOrder \/ WritePosition \/ WriteEntryPrice
    \/ WriteStopLoss \/ WriteTakeProfit \/ WriteExtreme

\* The exit thread, past its tick, takes its next step.
ExitContinues ==
    \/ ExitDecide \/ CloseShort \/ CloseLong \/ CloseSingle \/ ResetPosition
    \/ ResetEntryPrice \/ ResetStopLoss \/ ResetTakeProfit \/ ResetLongSymbol
    \/ ResetShortSymbol \/ ResetOptionSymbol

\* The entry loop's iteration resolves the future, or calls place_order.
EntryBegins ==
    \/ EntryResolve /\ current_symbol' # NoSymbol
    \/ EntryTick /\ epc' # "idle"

\* C17: neither loop ever ends or gets stuck, whatever the orders, the search
\* and the quotes answer or raise: each thread is always at a place of its
\* loop, inside place_order or close_position its next step can be taken,
\* between ticks the exit loop can tick, and while position is None and the
\* entry thread is between iterations a new entry can begin.
C17_LoopsNeverHalt ==
    /\ epc \in EntryPcs /\ xpc \in ExitPcs
    /\ epc # "idle" => ENABLED EntryContinues
    /\ xpc # "idle" => ENABLED ExitContinues
    /\ xpc = "idle" => ENABLED ExitTick
    /\ (epc = "idle" /\ position = NONE) => ENABLED EntryBegins

\* Leg 2 of a spread raised: the long leg is recorded, nothing is open, both
\* threads are back in their loops.
C17_Witness ==
    /\ bot = "hedge" /\ ~DRY_RUN
    /\ Quiescent
    /\ position = NONE
    /\ traded_long_symbol # NoSymbol
    /\ traded_short_symbol = NoSymbol
    /\ highest_price = 0 /\ lowest_price = 0

\* close_position returns (its last reset is done).
CloseReturns == xpc \in {"r_short", "r_option"} /\ xpc' = "idle"

\* C18: when close_position returns, the position is None and the reference
\* price, the stop-loss, the take-profit, the trailing extremes and every leg
\* symbol hold their cleared values (the entry thread asleep).
C18_AllClearedAfterClose ==
    [][(CloseReturns /\ epc = "idle") =>
         /\ position' = NONE
         /\ entry_price' = 0 /\ stop_loss' = 0 /\ take_profit' = 0
         /\ highest_price' = 0 /\ lowest_price' = 0
         /\ traded_long_symbol' = NoSymbol
         /\ traded_short_symbol' = NoSymbol
         /\ traded_option_symbol' = NoSymbol]_vars

\* place_order has been called on e_latest at e_now and has not yet acted.
JustCalled == epc \in {"leg1", "dry_long", "opt_sym"}

LongRule(latest) ==
    /\ latest.close > latest.ema
    /\ latest.rsi < RSI_OVERSOLD
    /\ latest.macd_line > latest.macd_signal

ShortRule(latest) ==
    /\ latest.close < latest.ema
    /\ latest.rsi > RSI_OVERBOUGHT
    /\ latest.macd_line < latest.macd_signal

\* An entry tick that calls place_order with side on the row latest.
EntryTickOn(latest, side) ==
    EntryTick /\ epc' # "idle" /\ e_latest' = latest /\ e_side' = side

\* C19: place_order is called with BUY exactly on a row whose close is above
\* the EMA, whose RSI is below the oversold threshold and whose MACD line is
\* above its signal, with SELL exactly on a row whose close is below the EMA,
\* whose RSI is above the overbought threshold and whose MACD line is below
\* its signal, and on no other row; no row gives both. While position is None
\* and the entry thread is between iterations, every row of the first kind
\* can be entered long and every row of the second kind short.
C19_ConfluenceRule ==
    /\ JustCalled =>
         /\ e_side \in {"BUY", "SELL"}
         /\ e_side = "BUY" <=> LongRule(e_latest)
         /\ e_side = "SELL" <=> ShortRule(e_latest)
    /\ (epc = "idle" /\ position = NONE /\ current_symbol # NoSymbol) =>
         \A latest \in Indicators :
            /\ (latest.ok /\ LongRule(latest)) => ENABLED EntryTickOn(latest, "BUY")
            /\ (latest.ok /\ ShortRule(latest)) => ENABLED EntryTickOn(latest, "SELL")

\* place_order was called with SELL on a row that meets the short rule.
C19_Witness ==
    /\ JustCalled
    /\ e_side = "SELL"
    /\ ShortRule(e_latest)
    /\ e_price = e_latest.close

\* C20: place_order is called only on indicators computed from at least
\* EMA_PERIOD candles; a shorter candle sequence gives no signal and opens
\* nothing.
C20_NoEntryOnShortHistory ==
    JustCalled => e_latest.n >= EMA_PERIOD

\* C21: an exit tick whose quote failed (get_ltp answered 0.0) changes
\* nothing at all, at any time and in any state: no price is checked, no order
\* is sent, no global is written. While a position is held and the exit thread
\* is between ticks, a tick with a usable quote can still follow.
C21_FailedQuoteNoOp ==
    /\ \A now \in Times : ~ENABLED (ExitTickAt(now, 0) /\ vars' # vars)
    /\ (xpc = "idle" /\ position # NONE /\ current_symbol # NoSymbol) =>
         \A now \in Times, ltp \in Ltps : ENABLED ExitTickActs(now, ltp)

\* A position with its levels set is held and both threads are asleep: the
\* next quote may fail.
C21_Witness ==
    /\ Quiescent
    /\ position # NONE
    /\ current_symbol # NoSymbol
    /\ stop_loss > 0 /\ take_profit > 0
    /\ x_price = 0

\* C22: as long as the future is not resolved the entry loop has fetched no
\* candles, called no place_order and sent no order, nothing is open and no
\* leg is recorded; and the resolution can be tried again, to fail again or to
\* succeed.
C22_UnresolvedSkipsTick ==
    current_symbol = NoSymbol =>
        /\ epc = "idle" /\ e_side = "" /\ e_latest = NoLatest
        /\ position = NONE
        /\ ~LegsRecorded
        /\ xpc = "idle"
        /\ ENABLED (EntryResolve /\ current_symbol' = NoSymbol)
        /\ ENABLED (EntryResolve /\ current_symbol' # NoSymbol)
        /\ ~ENABLED (EntryTick /\ vars' # vars)

\* The future is unresolved and the search may fail once more.
C22_Witness ==
    /\ current_symbol = NoSymbol
    /\ Quiescent
    /\ position = NONE
    /\ ENABLED (EntryResolve /\ current_symbol' = NoSymbol)

\* root, 2-digit day, month and year, FUT: four parts, the last three of these
\* kinds.
MatchesLayout(sym) ==
    /\ Len(sym) = 4
    /\ sym[2] \in DayParts
    /\ sym[3] \in {"DEC25", "JAN26"}
    /\ sym[4] = "FUT"

\* The option symbols place_order has built, all of them.
BuiltSymbols ==
    IF bot = "hedge" THEN {traded_long_symbol, traded_short_symbol}
    ELSE {traded_option_symbol}

\* C23: for a future symbol that does not match the layout root, 2-digit day,
\* month and year, FUT, get_option_symbol returns no symbol.
C23_MalformedRejected ==
    (epc = "built" /\ ~MatchesLayout(current_symbol)) =>
        BuiltSymbols = {NoSymbol}

\* An option symbol without its strike and its CE / PE.
OptionBase(opt) == SubSeq(opt, 1, Len(opt) - 2)

\* A future symbol without its FUT suffix.
WithoutFutSuffix(sym) ==
    IF sym[Len(sym)] = "FUT" THEN SubSeq(sym, 1, Len(sym) - 1) ELSE sym

\* C24: every option symbol built from a resolved future symbol, without its
\* strike and its CE / PE, is the future symbol without its FUT suffix.
C24_RoundTrip ==
    epc = "built" =>
        \A opt \in BuiltSymbols : OptionBase(opt) = WithoutFutSuffix(current_symbol)

\* C25: between the threads' steps, the stop of an open position is at its
\* initial level (the reference price minus / plus the stop distance) while
\* the excursion from the reference price to the trailing extreme is below the
\* activation threshold, and lies the trail distance behind the trailing
\* extreme once the excursion has reached it.
C25_TrailingActivation ==
    Quiescent =>
        /\ IsLong(position) =>
             IF highest_price - entry_price < TSL_ACTIVATION_POINTS
             THEN stop_loss = entry_price - STOP_LOSS_POINTS
             ELSE stop_loss = highest_price - TSL_TRAIL_POINTS
        /\ IsShort(position) =>
             IF entry_price - lowest_price < TSL_ACTIVATION_POINTS
             THEN stop_loss = entry_price + STOP_LOSS_POINTS
             ELSE stop_loss = lowest_price + TSL_TRAIL_POINTS

\* The orders of the running close_position.
Logged == {x_log[i] : i \in 1..Len(x_log)}

\* Every recorded leg has its close order among those sent.
RecordedLegsClosed ==
    IF bot = "hedge"
    THEN /\ traded_short_symbol # NoSymbol =>
              CloseOrder("BUY", traded_short_symbol) \in Logged
         /\ traded_long_symbol # NoSymbol =>
              CloseOrder("SELL", traded_long_symbol) \in Logged
    ELSE CloseOrder("SELL", exit_symbol) \in Logged

\* C26: the close decision of a tick whose price is at or beyond the stop or
\* the target of the open position starts close_position at once; when a live
\* close_position comes to its resets (the entry thread asleep), the close
\* order of every recorded leg has been sent; and when it returns (the entry thread asleep) the position
\* is None.
C26_CrossingClosesInTick ==
    [][/\ (xpc = "decide" /\ xpc' # "decide" /\ LevelCrossed) =>
            xpc' \in {"cl_short", "cl_order", "r_position"}
       /\ (xpc = "r_position" /\ xpc' # "r_position" /\ ~DRY_RUN
              /\ epc = "idle") =>
            RecordedLegsClosed
       /\ (CloseReturns /\ epc = "idle") => position' = NONE]_vars

\* The orders the running place_order of hedge_bot.py has sent: none, the BUY
\* of the ATM option answered with success, or that one followed by the SELL
\* of the OTM option.
PrimaryPlaced ==
    /\ Len(e_log) >= 1
    /\ e_log[1] = PlacedOrder("BUY", atm_sym, "success")

HedgePlaced ==
    /\ Len(e_log) = 2
    /\ e_log[2].action = "SELL" /\ e_log[2].symbol = otm_sym

\* C27: in hedge_bot.py the SELL of the hedge leg is sent only by a place_order
\* whose BUY of the primary leg was answered with success, and at most one
\* order per leg is sent in one call: the log of the running call is empty, or
\* the successful primary order, or that one followed by the hedge order; an
\* order is added one at a time; and a primary order that is not answered with
\* success ends the call with nothing more sent.
C27_HedgeAfterPrimarySuccess ==
    /\ bot = "hedge" =>
         \/ e_log = <<>>
         \/ Len(e_log) = 1 /\ PrimaryPlaced /\ epc = "leg2"
         \/ PrimaryPlaced /\ HedgePlaced /\ epc \notin {"idle", "leg1", "leg2"}
    /\ (bot = "hedge" /\ epc = "leg1") =>
         /\ ENABLED (HedgeLeg1 /\ epc' = "idle" /\ e_log' = <<>>)
         /\ ~ENABLED (HedgeLeg1 /\ Len(e_log') > 1)
    /\ (bot = "hedge" /\ epc = "leg2") =>
         ~ENABLED (HedgeLeg2 /\ Len(e_log') > 2)

C27_Witness ==
    /\ PrimaryPlaced /\ HedgePlaced
    /\ e_log[2].status = "fail"
    /\ traded_long_symbol = atm_sym

\* C28: in hedge_bot.py every outcome of the hedge order other than a
\* recorded hedge leg (a non-success answer or an exception) leaves the
\* position open in the signal's direction, and every outcome of the primary
\* order that ends the call leaves the position None, no leg newly recorded.
C28_RaiseIsFailure ==
    [][/\ (epc = "leg2" /\ epc' \notin {"leg2", "w_position"}) =>
            position' = PositionFor(e_side)
       /\ (epc = "leg1" /\ epc' = "idle") =>
            /\ position' = NONE
            /\ UNCHANGED <<traded_long_symbol, traded_short_symbol>>]_vars

\* A position of hedge_bot.py as its "Leg 2 Failed" branch leaves it: open,
\* the primary leg recorded, no hedge leg recorded.
Degraded ==
    /\ bot = "hedge" /\ ~DRY_RUN
    /\ position # NONE
    /\ traded_long_symbol # NoSymbol
    /\ traded_short_symbol = NoSymbol

\* C29: a close_position that runs on a degraded position sends no order at
\* its hedge step and has sent exactly one order when it comes to its resets,
\* the SELL of the recorded primary leg; and whenever a hedge close is sent at
\* all, its symbol is an option of the open position's direction, not one
\* left from a trade of the other direction.
C29_DegradedCloseOneOrder ==
    /\ (Degraded /\ xpc = "cl_short") =>
         /\ x_log = <<>>
         /\ ~ENABLED (CloseShort /\ x_log' # x_log)
    /\ (Degraded /\ xpc = "cl_long") =>
         /\ x_log = <<>>
         /\ ~ENABLED (CloseLong /\
                        x_log' # <<CloseOrder("SELL", traded_long_symbol)>>)
    /\ (Degraded /\ xpc = "r_position") =>
         x_log = <<CloseOrder("SELL", traded_long_symbol)>>
    /\ (bot = "hedge" /\ ~DRY_RUN /\ xpc = "cl_short"
          /\ traded_short_symbol # NoSymbol) =>
         traded_short_symbol[Len(traded_short_symbol)] =
            OptType(IF IsLong(position) THEN "BUY" ELSE "SELL")

C29_Witness ==
    /\ Degraded /\ xpc = "r_position" /\ epc = "idle"
    /\ Len(x_log) = 1 /\ stop_loss = 0

\* The price of the tick being decided lies strictly between the levels a
\* position opened at entry_price is meant to have: the reference price
\* minus/plus the stop distance, or the trailed stop where one is set and
\* tighter, and the reference price plus/minus the target distance.
StrictlyInsideLevels ==
    IF IsLong(position)
    THEN /\ x_price > entry_price - STOP_LOSS_POINTS
         /\ x_price > stop_loss
         /\ x_price < entry_price + TAKE_PROFIT_POINTS
    ELSE /\ x_price < entry_price + STOP_LOSS_POINTS
         /\ stop_loss > 0 => x_price < stop_loss
         /\ x_price > entry_price - TAKE_PROFIT_POINTS

\* C30: the close decision of hedge_bot.py never starts close_position on a
\* degraded position (the entry thread asleep) for a tick whose price is
\* strictly inside the position's levels.
C30_DegradedSameRiskRule ==
    [][(Degraded /\ epc = "idle" /\ xpc = "decide" /\ xpc' = "cl_short") =>
          ~StrictlyInsideLevels]_vars

\* C31: a leg the broker accepted is never left behind by a FLAT engine. A
\* leg symbol of a live position is recorded only for an accepted opening
\* order, so the claim's count of accepted opening and closing orders demands
\* of every step: a place_order whose primary order was accepted does not
\* return with the position None (no close running), and a live
\* close_position resets the position (the entry thread asleep) only after
\* the close order of every recorded leg was sent and none was refused.
C31_NoLegLeftAtBroker ==
    [][/\ (PrimaryPlaced /\ epc' = "idle" /\ xpc = "idle") =>
            position' # NONE
       /\ (xpc = "r_position" /\ xpc' # "r_position" /\ ~DRY_RUN
              /\ epc = "idle" /\ LegsRecorded) =>
            RecordedLegsClosed /\ ~close_failed]_vars

\* The close decision of a tick returns and leaves a position open that has
\* all its legs.
TickLeavesOpen ==
    /\ xpc = "decide" /\ xpc' = "idle"
    /\ position' # NONE
    /\ ~Degraded

\* C32: when the close decision of a tick leaves a non-degraded position
\* open, the tick's price lies strictly between the stop-loss and the
\* take-profit and the trailing extreme of the position's direction lies
\* strictly short of the take-profit.
C32_OpenTickInsideLevels ==
    [][TickLeavesOpen =>
         /\ IsLong(position) =>
              /\ stop_loss < x_price /\ x_price < take_profit
              /\ highest_price < take_profit
         /\ IsShort(position) =>
              /\ take_profit < x_price /\ x_price < stop_loss
              /\ lowest_price > take_profit]_vars

\* A step of the entry thread, a step of the exit thread.
EntryStep == entryLocals' # entryLocals
ExitStep == exitLocals' # exitLocals

\* C33: only a step of the entry thread takes position from None to a value
\* and only a step of the exit thread takes it back to None; the entry thread
\* enters place_order only on reading position None; and no step of the entry
\* thread taken while no close is running leaves position None with
\* entry_price, stop_loss or take_profit set.
C33_SingleWriterByState ==
    [][/\ (position = NONE /\ position' # NONE) => EntryStep /\ ~ExitStep
       /\ (position # NONE /\ position' = NONE) => ExitStep /\ ~EntryStep
       /\ (epc = "idle" /\ epc' # "idle") => position = NONE
       /\ (EntryStep /\ xpc = "idle" /\ position' = NONE) =>
            entry_price' = 0 /\ stop_loss' = 0 /\ take_profit' = 0]_vars

\* The options place_order can have bought, and in hedge_bot.py sold, for a
\* position of the open direction on the resolved future.
OpenSide == IF IsLong(position) THEN "BUY" ELSE "SELL"
BoughtLegs == {get_option_symbol(current_symbol, p, OpenSide, 0) : p \in Closes}
SoldLegs ==
    {get_option_symbol(current_symbol, p, OpenSide, SPREAD_WIDTH) : p \in Closes}

\* C34: every close order the running close_position has sent is the SELL of
\* an option the position can have bought or, in hedge_bot.py, the BUY of an
\* option it can have sold, and no leg has two close orders.
C34_CloseMirrorsOpen ==
    (position # NONE /\ x_log # <<>>) =>
        /\ \A i \in 1..Len(x_log) :
             \/ x_log[i].action = "SELL" /\ x_log[i].symbol \in BoughtLegs
             \/ /\ bot = "hedge"
                /\ x_log[i].action = "BUY" /\ x_log[i].symbol \in SoldLegs
        /\ \A i, j \in 1..Len(x_log) : x_log[i] = x_log[j] => i = j

\* place_order returns from its full open.
PlaceOrderCompletes == epc = "w_extreme" /\ epc' = "idle"

\* C35: run as functions, place_order and close_position send no order when
\* DRY_RUN is set, and the fields place_order leaves at the end of a full
\* open (in DRY_RUN, and live when every order was accepted) and those
\* close_position leaves are the same function of the script, the signal's
\* side and price and the resolved future, whatever DRY_RUN is.
C35_DryRunEquivalence ==
    /\ [](DRY_RUN => e_log = <<>> /\ x_log = <<>>)
    /\ [][PlaceOrderCompletes =>
            /\ position' = PositionFor(e_side)
            /\ entry_price' = e_price
            /\ stop_loss' = InitialStop(e_side, e_price)
            /\ take_profit' = InitialTarget(e_side, e_price)
            /\ IF e_side = "BUY" THEN highest_price' = e_price
                                 ELSE lowest_price' = e_price
            /\ IF bot = "hedge"
               THEN /\ traded_long_symbol' = atm_sym
                    /\ traded_short_symbol' = otm_sym
                    /\ traded_option_symbol' = NoSymbol
               ELSE /\ traded_option_symbol' = atm_sym
                    /\ traded_long_symbol' = NoSymbol
                    /\ traded_short_symbol' = NoSymbol]_vars
    /\ [][CloseReturns =>
            /\ position' = NONE /\ ~LegsRecorded'
            /\ entry_price' = 0 /\ stop_loss' = 0 /\ take_profit' = 0]_vars

C35_Witness ==
    /\ DRY_RUN /\ Quiescent
    /\ position # NONE /\ LegsRecorded
    /\ stop_loss = InitialStop(OpenSide, entry_price)
    /\ take_profit = InitialTarget(OpenSide, entry_price)

\* Stop or target, whatever the script's wording of the reason.
ReasonKind(reason) ==
    IF reason = "" THEN "none"
    ELSE IF reason = "TAKE PROFIT" THEN "target" ELSE "stop"

\* The two scripts' checks on the open position's direction and levels.
HedgeChecked(current_price) ==
    hedge_check(IF IsLong(position) THEN "BULL_SPREAD" ELSE "BEAR_SPREAD",
                entry_price, stop_loss, take_profit,
                highest_price, lowest_price, current_price)
ConfluenceChecked(current_price) ==
    confluence_check(IF IsLong(position) THEN "LONG" ELSE "SHORT",
                     entry_price, stop_loss, take_profit,
                     highest_price, lowest_price, current_price)
OwnChecked(current_price) ==
    IF bot = "hedge" THEN HedgeChecked(current_price)
    ELSE ConfluenceChecked(current_price)

\* C36: on the direction, reference price, levels and extremes of any
\* position either script can hold, and for every tick price, the two
\* check_exit_conditions leave the same extremes and the same stop and close
\* or not alike, with a reason of the same kind; and the tick of the running
\* script does what its own check says.
C36_SameRiskRule ==
    position # NONE =>
        /\ \A current_price \in Ltps :
             LET h == HedgeChecked(current_price)
                 c == ConfluenceChecked(current_price)
             IN  /\ h.highest = c.highest /\ h.lowest = c.lowest
                 /\ h.stop = c.stop
                 /\ ReasonKind(h.reason) = ReasonKind(c.reason)
                 /\ Trail(current_price) =
                       <<OwnChecked(current_price).highest,
                         OwnChecked(current_price).lowest,
                         OwnChecked(current_price).stop>>
        /\ xpc = "decide" =>
             ExitReason(x_price) = OwnChecked(x_price).reason

C36_Witness ==
    /\ Quiescent /\ position # NONE
    /\ \E current_price \in Ltps :
         HedgeChecked(current_price).stop # stop_loss
    /\ \E current_price \in Ltps :
         ReasonKind(ConfluenceChecked(current_price).reason) = "stop"
    /\ \E current_price \in Ltps :
         ReasonKind(ConfluenceChecked(current_price).reason) = "target"

\* The strike and type parts of a built option symbol.
StrikePart(opt) == opt[Len(opt) - 1]
TypePart(opt) == opt[Len(opt)]

\* The multiples of the strike step up to the highest price of the model.
BaseStrikes == {StrikeStep * k : k \in 0..600}

\* The option bought and, in hedge_bot.py, the option sold.
BuiltPrimary ==
    IF bot = "hedge" THEN traded_long_symbol ELSE traded_option_symbol

\* C37: the built option symbols end in CE for side BUY and in PE for side
\* SELL; the strike of the option bought (offset 0) is a multiple of 50 at
\* most 25 from the price; and the strike of the option hedge_bot.py sells
\* (offset SPREAD_WIDTH) is that multiple plus the offset for CE, minus the
\* offset for PE.
C37_OptionSymbolConstruction ==
    epc = "built" =>
        /\ \A opt \in BuiltSymbols :
             TypePart(opt) = IF e_side = "BUY" THEN "CE" ELSE "PE"
        /\ \E base \in BaseStrikes :
             /\ base - e_price <= 25 /\ e_price - base <= 25
             /\ StrikePart(BuiltPrimary) = ToString(base)
             /\ bot = "hedge" =>
                  StrikePart(traded_short_symbol) =
                     ToString(IF e_side = "BUY" THEN base + SPREAD_WIDTH
                                                ELSE base - SPREAD_WIDTH)

C37_Witness ==
    /\ epc = "built" /\ bot = "hedge"
    /\ e_side = "SELL" /\ e_price = 125
    /\ StrikePart(traded_long_symbol) = "100"
    /\ StrikePart(traded_short_symbol) = "-100"
    /\ TypePart(traded_short_symbol) = "PE"

\* The four tests of the claim on a symbol's parts.
StartsWithRoot(sym) == Len(sym) >= 1 /\ sym[1] = "NIFTY"
EndsWithTarget(sym) ==
    Len(sym) >= 2 /\ SubSeq(sym, Len(sym) - 1, Len(sym)) = <<"DEC25", "FUT">>
ContainsBank(sym) == \E i \in 1..Len(sym) : sym[i] \in {"BANK", "BANKNIFTY"}
TwoDigitsAfterRoot(sym) == Len(sym) >= 2 /\ sym[2] \in DayParts

PassesFilter(sym) ==
    /\ StartsWithRoot(sym) /\ EndsWithTarget(sym)
    /\ ~ContainsBank(sym) /\ TwoDigitsAfterRoot(sym)

\* The first symbol of the search, in its order, that passes; none if none does.
FirstPassing(data) ==
    IF \E i \in 1..Len(data) : PassesFilter(data[i])
    THEN data[CHOOSE i \in 1..Len(data) :
                 /\ PassesFilter(data[i])
                 /\ \A j \in 1..(i - 1) : ~PassesFilter(data[j])]
    ELSE NoSymbol

\* C38: for every answer of the search, resolve_current_symbol returns the
\* first symbol in the answer's order that passes the four tests, and no
\* symbol when none passes, when the answer is not a success or when the
\* search raises; the symbol entry_loop holds is always such a first match.
C38_FutureResolution ==
    /\ \A response \in SymbolSearchResponses :
         resolve_current_symbol(response) =
            IF response.status = "success" THEN FirstPassing(response.data)
            ELSE NoSymbol
    /\ current_symbol # NoSymbol =>
         /\ PassesFilter(current_symbol)
         /\ \E response \in SymbolSearchResponses :
              /\ response.status = "success"
              /\ current_symbol = FirstPassing(response.data)

C38_Witness ==
    /\ epc = "built"
    /\ current_symbol = <<"NIFTY", "24", "DEC25", "FUT">>
    /\ \E response \in SymbolSearchResponses :
         /\ Len(response.data) = 3
         /\ current_symbol = FirstPassing(response.data)

====
